---------------------------- MODULE Spec2Model ----------------------------
(***************************************************************************)
(* Model of the payment pipeline of the EmSec backend:                     *)
(*   controllers/paymentController.js  processPayment                      *)
(*   utils/gps.js                      calculateDistance                   *)
(*   utils/response.js                 sendSuccess, sendError              *)
(*   routes/payment.js                 router.post('/process'), the        *)
(*                                     simplified payment route            *)
(* and of its QR scan:                                                     *)
(*   controllers/paymentController.js  scanQR                              *)
(*   utils/gps.js                      findNearestStop, getConfidenceLevel *)
(*   routes/qr.js                      router.post('/scan') and its        *)
(*                                     helper findNearestStop              *)
(* Every request is one invocation of the handler.  Each await on a store  *)
(* call is one step; the requests interleave at these steps and share      *)
(* nothing but the store (the tables users, transactions, fraud_alerts,    *)
(* notifications, audit_logs).                                                   *)
(*                                                                         *)
(* Amounts and balances are whole currency units.  Coordinates are         *)
(* integers in units of 1e-5 degree; every point of the model lies on one  *)
(* meridian, where the haversine distance is R * |dLat|.                   *)
(***************************************************************************)
EXTENDS Integers, Sequences, FiniteSets, TLC

(***************************************************************************)
(* Bounds of the model.                                                    *)
(***************************************************************************)
NumRequests == 2
MaxFaults == 1
InitialBalance == 100

Requests == 1..NumRequests

(***************************************************************************)
(* Program constants.                                                      *)
(***************************************************************************)
\* paymentController.js:303  parseInt(process.env.GPS_MAX_DISTANCE_METERS) || 500
GPS_MAX_DISTANCE_METERS == 500
\* paymentController.js:310  risk_score: 75
RISK_SCORE == 75
\* an optional numeric body field that is absent (undefined)
NoCoord == -9999999
\* the longitude shared by every point of the model, 36.81720 degrees
LON == 3681720
\* paymentController.js:96  maxAge = 10 * 60 * 1000, milliseconds
MAX_AGE == 600000
\* gps.js:76  parseInt(process.env.GPS_CONFIDENCE_THRESHOLD_METERS) || 100
GPS_CONFIDENCE_THRESHOLD_METERS == 100
\* a null fare
NoFare == -1

ErrorCodes ==
    [USER_NOT_FOUND |-> "USER_NOT_FOUND",
     ACCOUNT_SUSPENDED |-> "ACCOUNT_SUSPENDED",
     INSUFFICIENT_BALANCE |-> "INSUFFICIENT_BALANCE",
     INVALID_PIN |-> "INVALID_PIN",
     ORIGIN_MISMATCH |-> "ORIGIN_MISMATCH",
     INVALID_QR |-> "INVALID_QR",
     INVALID_INPUT |-> "INVALID_INPUT",
     MERCHANT_INACTIVE |-> "MERCHANT_INACTIVE",
     GPS_UNAVAILABLE |-> "GPS_UNAVAILABLE",
     SERVER_ERROR |-> "SERVER_ERROR"]

(***************************************************************************)
(* utils/response.js                                                       *)
(***************************************************************************)
sendSuccess(data, message, statusCode) ==
    [statusCode |-> statusCode, success |-> TRUE, data |-> data, message |-> message]

sendError(message, code, statusCode) ==
    [statusCode |-> statusCode, success |-> FALSE, error |-> message, code |-> code]

\* no response sent yet
NoResponse == [statusCode |-> 0]

(***************************************************************************)
(* utils/gps.js calculateDistance: haversine on a sphere of radius         *)
(* 6371e3 m, rounded to the metre.  On one meridian (lon1 = lon2) the      *)
(* formula reduces to round(R * |lat2 - lat1| * pi / 180); one unit of     *)
(* 1e-5 degree is 1.111949 m.  Exact for |dLat| <= 1900 units.             *)
(***************************************************************************)
Abs(x) == IF x < 0 THEN -x ELSE x

calculateDistance(lat1, lon1, lat2, lon2) ==
    CASE lon1 = lon2 -> (Abs(lat2 - lat1) * 1111949 + 500000) \div 1000000

(***************************************************************************)
(* JavaScript truthiness of an optional number and of an optional string.  *)
(***************************************************************************)
TruthyNum(x) == x # NoCoord /\ x # 0
TruthyStr(s) == s # ""

(***************************************************************************)
(* The store's static tables.                                              *)
(***************************************************************************)
PIN_OK == "1234"

\* A row of table devices joined with its merchant, as the handlers select it.
\* commission_rate is a whole percentage (5 is the rate 0.05); route_id "" is a
\* device without route (routes: null).
Device(device_id, status, route_id, gps_enabled, merchants) ==
    [device_id |-> device_id, device_token |-> "t" \o device_id,
     merchant_id |-> merchants.merchant_id, status |-> status,
     route_id |-> route_id, gps_enabled |-> gps_enabled, merchants |-> merchants]

Matatu ==
    [merchant_id |-> "m1", merchant_type |-> "transport", business_name |-> "Shop",
     matatu_plate |-> "KAA001", commission_rate |-> 5, status |-> "active"]

Kiosk ==
    [merchant_id |-> "m2", merchant_type |-> "shop", business_name |-> "Kiosk",
     matatu_plate |-> "KAA002", commission_rate |-> 0, status |-> "suspended"]

Duka ==
    [merchant_id |-> "m3", merchant_type |-> "shop", business_name |-> "Duka",
     matatu_plate |-> "", commission_rate |-> 3, status |-> "active"]

\* d2 is a revoked device; d3 is the device of a suspended merchant; d1, d4 to
\* d7, d9 and d10 are vehicles on a route, d5 with GPS reporting switched off;
\* d8 is a shop's device.
Devices ==
    [d1 |-> Device("d1", "active", "r1", TRUE, Matatu),
     d2 |-> Device("d2", "revoked", "r1", TRUE, Matatu),
     d3 |-> Device("d3", "active", "", FALSE, Kiosk),
     d4 |-> Device("d4", "active", "r2", TRUE, Matatu),
     d5 |-> Device("d5", "active", "r2", FALSE, Matatu),
     d6 |-> Device("d6", "active", "r2", TRUE, Matatu),
     d7 |-> Device("d7", "active", "r3", TRUE, Matatu),
     d8 |-> Device("d8", "active", "", FALSE, Duka),
     d9 |-> Device("d9", "active", "r2", TRUE, Matatu),
     d10 |-> Device("d10", "active", "r4", TRUE, Matatu)]

\* table merchants, as the simplified route reads it
Merchants ==
    [m1 |-> [commission_rate |-> 5],
     m2 |-> [commission_rate |-> 0]]

\* A stop of a route's stops array.  latitude and longitude are what
\* processPayment, scanQR and gps.js read; gps.lat and gps.lng are what the
\* helper of routes/qr.js reads.  Both carry the same position; NoCoord is an
\* absent coordinate.
Stop(id, latitude, longitude) ==
    [id |-> id, name |-> id, latitude |-> latitude, longitude |-> longitude,
     gps |-> [lat |-> latitude, lng |-> longitude]]

\* r1 has a stop on the equator and a stop without coordinates; r2 has two
\* stops at the same distance from latitude 1500 and a stop without
\* coordinates in between; no stop of r3 has coordinates; r4 has no stops.
Routes ==
    [r1 |-> [stops |-> << Stop("s1", 1000, LON),
                          Stop("s0", 0, LON),
                          Stop("s2", NoCoord, NoCoord) >>],
     r2 |-> [stops |-> << Stop("a", 1000, LON),
                          Stop("b", 2000, LON),
                          Stop("c", NoCoord, NoCoord),
                          Stop("d", 3000, LON) >>],
     r3 |-> [stops |-> << Stop("x", NoCoord, NoCoord),
                          Stop("y", NoCoord, NoCoord) >>],
     r4 |-> [stops |-> << >>]]

\* table fare_rules: the fare from a is published for b and d (none for c);
\* effective_until = "" is null, the rule in force; the rule from b to d has
\* expired and has no successor.
FareRules ==
    { [route_id |-> "r2", origin_stop_id |-> "a", destination_stop_id |-> "b",
       fare_amount |-> 50, effective_until |-> ""],
      [route_id |-> "r2", origin_stop_id |-> "a", destination_stop_id |-> "d",
       fare_amount |-> 80, effective_until |-> ""],
      [route_id |-> "r2", origin_stop_id |-> "a", destination_stop_id |-> "d",
       fare_amount |-> 70, effective_until |-> "2024-01-01"],
      [route_id |-> "r2", origin_stop_id |-> "b", destination_stop_id |-> "d",
       fare_amount |-> 40, effective_until |-> "2024-01-01"],
      [route_id |-> "r1", origin_stop_id |-> "s1", destination_stop_id |-> "s0",
       fare_amount |-> 30, effective_until |-> ""] }

\* the columns last_gps_latitude, last_gps_longitude, last_gps_updated_at of
\* table devices as the vehicles reported them (updated_at in milliseconds);
\* d4 is midway between the stops a and b, d9 is 100 m from b, d6 is on the
\* equator, d7 and the shops' devices have reported no position
DeviceGpsInit ==
    [d \in DOMAIN Devices |->
        [last_gps_latitude |-> CASE d = "d1" -> 400
                                 [] d \in {"d2", "d4", "d5", "d10"} -> 1500
                                 [] d = "d9" -> 2090
                                 [] d = "d6" -> 0
                                 [] OTHER -> NoCoord,
         last_gps_longitude |-> IF d \in {"d3", "d7", "d8"} THEN NoCoord ELSE LON,
         last_gps_updated_at |-> 0]]

UsersInit ==
    [u1 |-> [balance |-> InitialBalance, pin_hash |-> PIN_OK, status |-> "active"],
     u2 |-> [balance |-> InitialBalance, pin_hash |-> PIN_OK, status |-> "suspended"]]

(***************************************************************************)
(* Request bodies (req.user.user_id and req.body).  amount_type is the     *)
(* JSON type of the amount the client sent: a number (40) or a string      *)
(* ("40") with the same numeric value.                                     *)
(***************************************************************************)
Body(u, d, rt, o, a, p, k, la, lo) ==
    [user_id |-> u, device_id |-> d, route_id |-> rt, origin_stop |-> o,
     amount |-> a, amount_type |-> "number", pin |-> p, idempotency_key |-> k,
     gps_latitude |-> la, gps_longitude |-> lo,
     merchant_id |-> "", endpoint |-> "controller"]

Keys == {"R1", "R2"}
\* The reference code matters only through the codes of the other requests:
\* the requests below that are not plain payments carry R1, and the request
\* that races with them chooses between R1 and R2.
FirstKeys == {"R1"}

\* requests without origin claim: the ledger's checks
LedgerInputs ==
    { Body("u1", d, "", "", a, p, k, NoCoord, NoCoord) :
        d \in {"d1", "dX"}, a \in {40, 100}, p \in {PIN_OK, "0000"}, k \in Keys }

\* requests of a suspended account and of a user without account
AccountInputs ==
    { Body(u, "d1", "", "", 40, PIN_OK, k, NoCoord, NoCoord) :
        u \in {"u2", "u9"}, k \in FirstKeys }

\* requests with an origin claim: the fraud gate's cases
GateInputs ==
    { Body("u1", "d1", "r1", o, 40, PIN_OK, k, la, LON) :
        o \in {"s1", "s0", "s2", "sX"}, la \in {0, 1450, 1451}, k \in FirstKeys }

\* requests whose amount is not positive
AmountInputs ==
    { Body("u1", "d1", "", "", a, PIN_OK, k, NoCoord, NoCoord) :
        a \in {-40, 0}, k \in FirstKeys }

\* requests that name a revoked device or the device of a suspended merchant
DeviceInputs ==
    { Body("u1", d, "", "", 40, PIN_OK, k, NoCoord, NoCoord) :
        d \in {"d2", "d3"}, k \in FirstKeys }

\* requests whose amount is sent as a JSON string
StringAmountInputs ==
    { [ Body("u1", "d1", "", "", 40, PIN_OK, k, NoCoord, NoCoord)
          EXCEPT !.amount_type = "string" ] : k \in FirstKeys }

\* requests with a wrong PIN whose claimed origin is 501 m from the fix
OrderInputs ==
    { Body("u1", "d1", "r1", "s1", 40, "0000", k, 1451, LON) : k \in FirstKeys }

\* a request without idempotency_key (absent or empty)
KeylessInputs ==
    { Body("u1", "d1", "", "", 40, PIN_OK, "", NoCoord, NoCoord) }

Inputs ==
    LedgerInputs \cup AccountInputs \cup GateInputs \cup AmountInputs \cup DeviceInputs
        \cup StringAmountInputs \cup OrderInputs \cup KeylessInputs

\* bodies sent to the simplified route: merchant_id, amount, pin and no
\* idempotency_key
RouterBody(u, m, a, p) ==
    [user_id |-> u, device_id |-> "d1", route_id |-> "", origin_stop |-> "",
     amount |-> a, amount_type |-> "number", pin |-> p, idempotency_key |-> "",
     gps_latitude |-> NoCoord, gps_longitude |-> NoCoord,
     merchant_id |-> m, endpoint |-> "router"]

RouterInputs ==
    { RouterBody(u, "m1", a, p) :
        u \in {"u1", "u2", "u9"}, a \in {40, 100}, p \in {PIN_OK, "0000"} }
    \cup { RouterBody("u1", "", 40, PIN_OK), RouterBody("u1", "m1", 40, "") }
    \cup { RouterBody("u1", "m1", a, PIN_OK) : a \in {-40, 0} }
    \cup { [ RouterBody("u1", "m1", 40, PIN_OK) EXCEPT !.amount_type = "string" ],
           RouterBody("u1", "m2", 40, PIN_OK), RouterBody("u1", "mX", 40, PIN_OK) }

\* The first request is any of the above; the requests that race with it are
\* valid payments of account u1 through either route.
RacingInputs ==
    { Body("u1", "d1", "", "", a, PIN_OK, k, NoCoord, NoCoord) :
        a \in {40, 100}, k \in Keys }

RacingRouterInputs ==
    { RouterBody("u1", "m1", a, PIN_OK) : a \in {40, 100} }

\* Further requests are transmissions of one payment of 40 of account u1.
RetryInputs == { Body("u1", "d1", "", "", 40, PIN_OK, "R1", NoCoord, NoCoord) }

RetryRouterInputs == { RouterBody("u1", "m1", 40, PIN_OK) }

InputsOf(r) == IF r = 1 THEN Inputs ELSE IF r = 2 THEN RacingInputs ELSE RetryInputs

RouterInputsOf(r) ==
    IF r = 1 THEN RouterInputs ELSE IF r = 2 THEN RacingRouterInputs ELSE RetryRouterInputs

NoBody == Body("", "", "", "", 0, "", "", NoCoord, NoCoord)
NoLocals == [balance |-> 0, distance |-> NoCoord]

(***************************************************************************)
(* QR scan requests (req.body of POST /qr/scan and of POST /scan) and the  *)
(* local variables of a scan.                                              *)
(***************************************************************************)
ScanBody(endpoint, device_token, la, lo) ==
    [endpoint |-> endpoint, device_token |-> device_token,
     user_gps_latitude |-> la, user_gps_longitude |-> lo]

\* the tokens of the devices, a token of no device, and no token
ScanTokens == { Devices[d].device_token : d \in DOMAIN Devices } \cup {"tX", ""}

\* scans through scanQR, which does not read the payer's position
ScanInputs == { ScanBody("scanQR", tok, NoCoord, NoCoord) : tok \in ScanTokens }

\* scans through router.post('/scan') of routes/qr.js, with and without the
\* payer's position
QrScanInputs ==
    { ScanBody("qr", tok, la, IF la = NoCoord THEN NoCoord ELSE LON) :
        tok \in ScanTokens, la \in {NoCoord, 0, 2089, 2179, 2180, 2600} }

\* Further scans are scans of the vehicles d4 and d7.
RacingScanInputs ==
    { ScanBody("scanQR", tok, NoCoord, NoCoord) : tok \in {"td4", "td7"} }

RacingQrScanInputs ==
    { ScanBody("qr", tok, 2600, LON) : tok \in {"td4", "td7"} }

RetryScanInputs == { ScanBody("scanQR", "td4", NoCoord, NoCoord) }

RetryQrScanInputs == { ScanBody("qr", "td4", 2600, LON) }

ScanInputsOf(r) ==
    IF r = 1 THEN ScanInputs ELSE IF r = 2 THEN RacingScanInputs ELSE RetryScanInputs

QrScanInputsOf(r) ==
    IF r = 1 THEN QrScanInputs
    ELSE IF r = 2 THEN RacingQrScanInputs ELSE RetryQrScanInputs

\* the values Date.now() returns: the vehicles' positions were reported at 0
Times == {MAX_AGE - 1, MAX_AGE, MAX_AGE + 1}

\* null: findNearestStop found no stop
NoStop ==
    [id |-> "", name |-> "", latitude |-> NoCoord, longitude |-> NoCoord,
     distance_meters |-> NoCoord]

NoGps ==
    [last_gps_latitude |-> NoCoord, last_gps_longitude |-> NoCoord,
     last_gps_updated_at |-> 0]

\* device: the device_id of the row read ("" when none); gps: its position
\* columns as read; now: the value of Date.now(); nearestStop: the result of
\* findNearestStop; destinations: availableDestinations
NoScanLocals ==
    [device |-> "", gps |-> NoGps, now |-> 0, nearestStop |-> NoStop,
     destinations |-> << >>]

NoScan ==
    [pc |-> "idle", req |-> ScanBody("", "", NoCoord, NoCoord),
     locals |-> NoScanLocals, res |-> NoResponse]

VARIABLES
    users,          \* table users: user_id -> row
    transactions,   \* table transactions, in insertion order
    fraud_alerts,   \* table fraud_alerts, in insertion order
    notifications,  \* table notifications, in insertion order
    audit_logs,     \* table audit_logs, in insertion order
    pc,             \* each request's position in the handler
    req,            \* each request's user and body
    locals,         \* each request's local variables
    res,            \* the response sent to each request
    log,            \* history: the store calls of each request and their outcome
    faults,         \* history: number of store writes that failed
    device_gps,     \* table devices: device_id -> the last reported position
    clock,          \* the time of the last reading of Date.now(), milliseconds
    scan            \* each QR scan: its position, body, locals and response

scanVars == << device_gps, clock, scan >>

vars == << users, transactions, fraud_alerts, notifications, audit_logs, pc, req,
           locals, res, log, faults, device_gps, clock, scan >>

Init ==
    /\ users = UsersInit
    /\ transactions = << >>
    /\ fraud_alerts = << >>
    /\ notifications = << >>
    /\ audit_logs = << >>
    /\ pc = [r \in Requests |-> "idle"]
    /\ req = [r \in Requests |-> NoBody]
    /\ locals = [r \in Requests |-> NoLocals]
    /\ res = [r \in Requests |-> NoResponse]
    /\ log = [r \in Requests |-> {}]
    /\ faults = 0
    /\ device_gps = DeviceGpsInit
    /\ clock = 0
    /\ scan = [r \in Requests |-> NoScan]

(***************************************************************************)
(* The store (Supabase/PostgREST).  Each call is one statement, atomic.    *)
(* A call does not throw: it returns {data, error}.  In the actions below  *)
(* a write may be refused by the store (at most MaxFaults times in a run); *)
(* what the handler does then is what it does with the returned error.     *)
(* Reads return the committed rows.                                        *)
(***************************************************************************)
\* .select(...).eq(column, value).single(): the row, or null (no rows) when none
\* or several match
Range(seq) == { seq[i] : i \in DOMAIN seq }

SelectSingle(rows) == IF Cardinality(rows) = 1 THEN rows ELSE {}

\* the call replaces the row written last (an upsert on a fixed key)
Insert_Overwrite(table, row) ==
    IF table = << >> THEN << row >> ELSE [table EXCEPT ![Len(table)] = row]

\* .from(table).insert(row): the row is added, the rows of the table stay
Insert(table, row) == Append(table, row)

\* a store without the constraint
DuplicateKey_None(table, row) == FALSE

\* transactions.reference_code carries a uniqueness constraint: the insert of a
\* second row with the same reference code is refused
DuplicateKey(table, row) ==
    \E t \in Range(table) : t.reference_code = row.reference_code

InsertUnique(table, row) ==
    IF DuplicateKey(table, row)
    THEN [error |-> "duplicate_key", table |-> table]
    ELSE [error |-> "", table |-> Insert(table, row)]

(***************************************************************************)
(* middleware/validation.js and the route of processPayment                *)
(***************************************************************************)
\* validation.js:48-76: the rules on amount, pin and idempotency_key (the
\* identifiers of the model count as well-formed, the coordinates as in range)
paymentValidation(b) ==
    /\ b.amount >= 1
    /\ TruthyStr(b.pin)
    /\ TruthyStr(b.idempotency_key)

\* routes/qr.js:169: router.post('/payments/process', authenticateToken,
\* processPayment), the handlers a request passes through
PaymentsProcessChain == << "authenticateToken", "processPayment" >>

\* validation.js:96-110 checkValidation, where the chain holds the validation:
\* a body that breaks a rule is answered 400 INVALID_INPUT
RejectedByValidation(b) ==
    /\ \E i \in DOMAIN PaymentsProcessChain : PaymentsProcessChain[i] = "paymentValidation"
    /\ ~paymentValidation(b)

(***************************************************************************)
(* processPayment, paymentController.js:191-423.  The handler is mounted   *)
(* at routes/qr.js:169 behind authenticateToken alone: the body reaches it *)
(* as the client sent it.                                                  *)
(***************************************************************************)
\* the lookup filters on another column than reference_code
existingTxn_WrongColumn(key) ==
    SelectSingle({ t \in Range(transactions) : t.user_id = key })

\* line 210-214: the idempotency lookup by reference_code
existingTxn(key) ==
    SelectSingle({ t \in Range(transactions) : t.reference_code = key })

\* line 212, 217: the replay's response carries the selected columns only
ReplayResponse(t) ==
    sendSuccess([transaction_id |-> t.transaction_id, status |-> t.status,
                 amount |-> t.amount],
                "Transaction already processed", 200)

\* the comparison's result is not used
pinMatch_Always(pin, pin_hash) == TRUE

\* line 237: bcrypt.compare(pin, user.pin_hash)
pinMatch(pin, pin_hash) == pin = pin_hash

\* the operands of the comparison exchanged
InsufficientBalance_Swapped(balance, amount) == amount < balance

\* line 243: parseFloat(user.balance) < amount
InsufficientBalance(balance, amount) == balance < amount

\* line 280: the gate is entered only if all four are truthy
GateCondition(b) ==
    /\ TruthyStr(b.route_id)
    /\ TruthyStr(b.origin_stop)
    /\ TruthyNum(b.gps_latitude)
    /\ TruthyNum(b.gps_longitude)

\* line 290: stops.find(s => s.id === origin_stop)
selectedStop(stops, origin_stop) ==
    { stops[i] : i \in { j \in DOMAIN stops : stops[j].id = origin_stop
                           /\ \A k \in 1..(j-1) : stops[k].id # origin_stop } }

\* line 292: selectedStop && selectedStop.latitude && selectedStop.longitude
StopHasCoordinates(sel) ==
    \E s \in sel : TruthyNum(s.latitude) /\ TruthyNum(s.longitude)

\* line 304: distance > maxDistance
TooFar(distance) == distance > GPS_MAX_DISTANCE_METERS

\* line 332: uuidv4(), a fresh identifier per invocation
uuidv4(r) == r

\* line 273: amount * commission_rate.  The amount is in whole currency units
\* and the rate a whole percentage: the product is the commission in
\* hundredths of the unit.  The arithmetic here is exact; the code's is
\* IEEE-754 double arithmetic without rounding to the minor unit.
merchant_commission(amount, commission_rate) == amount * commission_rate

\* line 274: amount - merchant_commission, in hundredths of the unit
net_amount(amount, commission_rate) ==
    amount * 100 - merchant_commission(amount, commission_rate)

\* line 277, 355: let auto_detected_origin = true, never assigned again
auto_detected_origin(b) == TRUE

\* line 338-360: the Transaction row
TransactionRow(r, b, balance_before, distance) ==
    [transaction_id |-> uuidv4(r),
     user_id |-> b.user_id,
     merchant_id |-> Devices[b.device_id].merchant_id,
     device_id |-> b.device_id,
     amount |-> b.amount,
     merchant_commission |->
         merchant_commission(b.amount, Devices[b.device_id].merchants.commission_rate),
     net_amount |->
         net_amount(b.amount, Devices[b.device_id].merchants.commission_rate),
     origin_stop |-> b.origin_stop,
     status |-> "success",
     reference_code |-> b.idempotency_key,
     auto_detected_origin |-> auto_detected_origin(b),
     nearest_stop_distance_meters |-> distance,
     user_balance_before |-> balance_before,
     user_balance_after |-> balance_before - b.amount]

\* line 395-412: the response of the request that committed
PaymentResponse(t) ==
    sendSuccess([transaction_id |-> t.transaction_id, status |-> "success",
                 amount |-> t.amount, origin |-> t.origin_stop,
                 balance_before |-> t.user_balance_before,
                 balance_after |-> t.user_balance_after,
                 reference |-> t.reference_code],
                "Payment successful", 201)

\* return sendXxx(res, ...): the handler answers and ends
Respond(r, response) ==
    /\ res' = [res EXCEPT ![r] = response]
    /\ pc' = [pc EXCEPT ![r] = "done"]

Goto(r, label) ==
    /\ pc' = [pc EXCEPT ![r] = label]
    /\ UNCHANGED res

Log(r, entry) == log' = [log EXCEPT ![r] = @ \cup {entry}]

\* the account, PIN and balance checks run ahead of the lookup
CheckIdempotency_ChecksFirst(r) ==
    /\ pc[r] = "idle"
    /\ \E b \in InputsOf(r) :
         /\ req' = [req EXCEPT ![r] = b]
         /\ LET found == existingTxn(b.idempotency_key) IN
              IF \/ b.user_id \notin DOMAIN users
                 \/ users[b.user_id].status # "active"
                 \/ ~pinMatch(b.pin, users[b.user_id].pin_hash)
                 \/ InsufficientBalance(users[b.user_id].balance, b.amount)
              THEN /\ Respond(r, sendError("Payment refused",
                                            ErrorCodes.INSUFFICIENT_BALANCE, 400))
                   /\ Log(r, "lookup:miss")
              ELSE IF found # {}
              THEN /\ Respond(r, ReplayResponse(CHOOSE t \in found : TRUE))
                   /\ Log(r, "lookup:hit")
              ELSE /\ Goto(r, "get_user")
                   /\ Log(r, "lookup:miss")
    /\ UNCHANGED << users, transactions, fraud_alerts, notifications, audit_logs, locals, faults >>
    /\ UNCHANGED scanVars

\* routes/qr.js:169 and line 196-218: the request passes the route's chain;
\* processPayment reads it and looks the reference code up
CheckIdempotency(r) ==
    /\ pc[r] = "idle"
    /\ \E b \in InputsOf(r) :
         /\ req' = [req EXCEPT ![r] = b]
         /\ LET found == existingTxn(b.idempotency_key) IN
              IF RejectedByValidation(b)
              THEN /\ Respond(r, sendError("Validation failed",
                                            ErrorCodes.INVALID_INPUT, 400))
                   /\ UNCHANGED log
              ELSE IF found # {}
              THEN /\ Respond(r, ReplayResponse(CHOOSE t \in found : TRUE))
                   /\ Log(r, "lookup:hit")
              ELSE /\ Goto(r, "get_user")
                   /\ Log(r, "lookup:miss")
    /\ UNCHANGED << users, transactions, fraud_alerts, notifications, audit_logs, locals, faults >>
    /\ UNCHANGED scanVars

\* line 220-250: load the account; status, PIN and balance checks
GetUser(r) ==
    /\ pc[r] = "get_user"
    /\ LET b == req[r] IN
         IF b.user_id \notin DOMAIN users
         THEN Respond(r, sendError("User not found", ErrorCodes.USER_NOT_FOUND, 404))
              /\ UNCHANGED locals
         ELSE LET user == users[b.user_id] IN
           IF user.status # "active"
           THEN Respond(r, sendError("Account is not active",
                                     ErrorCodes.ACCOUNT_SUSPENDED, 403))
                /\ UNCHANGED locals
           ELSE IF ~pinMatch(b.pin, user.pin_hash)
           THEN Respond(r, sendError("Incorrect PIN", ErrorCodes.INVALID_PIN, 401))
                /\ UNCHANGED locals
           ELSE IF InsufficientBalance(user.balance, b.amount)
           THEN Respond(r, sendError("Insufficient balance",
                                     ErrorCodes.INSUFFICIENT_BALANCE, 400))
                /\ UNCHANGED locals
           ELSE /\ Goto(r, "get_device")
                /\ locals' = [locals EXCEPT ![r].balance = user.balance]
    /\ UNCHANGED << users, transactions, fraud_alerts, notifications, audit_logs, req, log, faults >>
    /\ UNCHANGED scanVars

\* line 252-280: load the device; decide whether the gate is entered
GetDevice(r) ==
    /\ pc[r] = "get_device"
    /\ IF req[r].device_id \notin DOMAIN Devices
       THEN Respond(r, sendError("Invalid device", ErrorCodes.INVALID_QR, 404))
       ELSE IF GateCondition(req[r])
       THEN Goto(r, "get_route")
       ELSE Goto(r, "insert_txn")
    /\ UNCHANGED << users, transactions, fraud_alerts, notifications, audit_logs, req, locals,
                    log, faults >>
    /\ UNCHANGED scanVars

\* an origin that cannot be measured is treated as a mismatch
GetRoute_RejectUnknown(r) ==
    /\ pc[r] = "get_route"
    /\ LET b == req[r]
           sel == IF b.route_id \in DOMAIN Routes
                  THEN selectedStop(Routes[b.route_id].stops, b.origin_stop)
                  ELSE {}
       IN IF StopHasCoordinates(sel)
          THEN LET s == CHOOSE x \in sel : TRUE
                   distance == calculateDistance(b.gps_latitude, b.gps_longitude,
                                                 s.latitude, s.longitude)
               IN /\ locals' = [locals EXCEPT ![r].distance = distance]
                  /\ IF TooFar(distance)
                     THEN Goto(r, "fraud_alert")
                     ELSE Goto(r, "insert_txn")
          ELSE /\ Goto(r, "fraud_alert")
               /\ UNCHANGED locals
    /\ UNCHANGED << users, transactions, fraud_alerts, notifications, audit_logs, req, log, faults >>
    /\ UNCHANGED scanVars

\* line 281-304: load the route, measure the claimed origin against the fix
GetRoute(r) ==
    /\ pc[r] = "get_route"
    /\ LET b == req[r]
           sel == IF b.route_id \in DOMAIN Routes
                  THEN selectedStop(Routes[b.route_id].stops, b.origin_stop)
                  ELSE {}
       IN IF StopHasCoordinates(sel)
          THEN LET s == CHOOSE x \in sel : TRUE
                   distance == calculateDistance(b.gps_latitude, b.gps_longitude,
                                                 s.latitude, s.longitude)
               IN /\ locals' = [locals EXCEPT ![r].distance = distance]
                  /\ IF TooFar(distance)
                     THEN Goto(r, "fraud_alert")
                     ELSE Goto(r, "insert_txn")
          ELSE /\ Goto(r, "insert_txn")
               /\ UNCHANGED locals
    /\ UNCHANGED << users, transactions, fraud_alerts, notifications, audit_logs, req, log, faults >>
    /\ UNCHANGED scanVars

\* the alert carries the identifier of the transaction about to be created
FraudAlertRow_Linked(r) ==
    [user_id |-> req[r].user_id, transaction_id |-> ToString(uuidv4(r)),
     alert_type |-> "suspicious_origin", risk_score |-> RISK_SCORE,
     alert_level |-> "high", request |-> r,
     details |-> [gps_latitude |-> req[r].gps_latitude,
                  gps_longitude |-> req[r].gps_longitude,
                  selected_origin |-> req[r].origin_stop,
                  distance_meters |-> locals[r].distance]]

\* line 306-318: the FraudAlert row (request: the invocation that wrote it)
FraudAlertRow(r) ==
    [user_id |-> req[r].user_id, transaction_id |-> "null",
     alert_type |-> "suspicious_origin", risk_score |-> RISK_SCORE,
     alert_level |-> "high", request |-> r,
     details |-> [gps_latitude |-> req[r].gps_latitude,
                  gps_longitude |-> req[r].gps_longitude,
                  selected_origin |-> req[r].origin_stop,
                  distance_meters |-> locals[r].distance]]

\* an error of the alert write is reported as the request's failure
OriginMismatchResponse_Checked(alertError) ==
    IF alertError # ""
    THEN sendError("Server error during payment", ErrorCodes.SERVER_ERROR, 500)
    ELSE sendError("Origin location mismatch detected", ErrorCodes.ORIGIN_MISMATCH, 400)

\* line 306, 320-325: the result of the alert insert is not read; the answer is
\* the same whatever error it carries
OriginMismatchResponse(alertError) ==
    sendError("Origin location mismatch detected", ErrorCodes.ORIGIN_MISMATCH, 400)

\* the alert flags the payment, which goes on to the insert
InsertFraudAlert_Flag(r) ==
    /\ pc[r] = "fraud_alert"
    /\ \/ /\ fraud_alerts' = Insert(fraud_alerts, FraudAlertRow(r))
          /\ Log(r, "fraud_alert:ok")
          /\ Goto(r, "insert_txn")
          /\ UNCHANGED faults
       \/ /\ faults < MaxFaults
          /\ faults' = faults + 1
          /\ Log(r, "fraud_alert:error")
          /\ Respond(r, OriginMismatchResponse("store_error"))
          /\ UNCHANGED fraud_alerts
    /\ UNCHANGED << users, transactions, notifications, audit_logs, req, locals >>
    /\ UNCHANGED scanVars

\* line 305-325: record the alert, reject the payment
InsertFraudAlert(r) ==
    /\ pc[r] = "fraud_alert"
    /\ \/ /\ fraud_alerts' = Insert(fraud_alerts, FraudAlertRow(r))
          /\ Log(r, "fraud_alert:ok")
          /\ Respond(r, OriginMismatchResponse(""))
          /\ UNCHANGED faults
       \/ /\ faults < MaxFaults
          /\ faults' = faults + 1
          /\ Log(r, "fraud_alert:error")
          /\ Respond(r, OriginMismatchResponse("store_error"))
          /\ UNCHANGED fraud_alerts
    /\ UNCHANGED << users, transactions, notifications, audit_logs, req, locals >>
    /\ UNCHANGED scanVars

\* line 331-367: insert the Transaction row
InsertTransaction(r) ==
    /\ pc[r] = "insert_txn"
    /\ LET row == TransactionRow(r, req[r], locals[r].balance, locals[r].distance)
           ins == InsertUnique(transactions, row)
       IN \/ /\ ins.error = ""
             /\ transactions' = ins.table
             /\ Goto(r, "update_balance")
             /\ Log(r, "insert_txn:ok")
             /\ UNCHANGED faults
          \/ /\ ins.error # ""
             /\ Respond(r, sendError("Payment failed", ErrorCodes.SERVER_ERROR, 500))
             /\ Log(r, "insert_txn:duplicate")
             /\ UNCHANGED << transactions, faults >>
          \/ /\ faults < MaxFaults
             /\ faults' = faults + 1
             /\ Respond(r, sendError("Payment failed", ErrorCodes.SERVER_ERROR, 500))
             /\ Log(r, "insert_txn:error")
             /\ UNCHANGED transactions
    /\ UNCHANGED << users, fraud_alerts, notifications, audit_logs, req, locals >>
    /\ UNCHANGED scanVars

\* line 369-373: write the new balance; the call's error is not read
UpdateBalance(r) ==
    /\ pc[r] = "update_balance"
    /\ \/ /\ users' = [users EXCEPT ![req[r].user_id].balance =
                                       locals[r].balance - req[r].amount]
          /\ Log(r, "update_balance:ok")
          /\ UNCHANGED faults
       \/ /\ faults < MaxFaults
          /\ faults' = faults + 1
          /\ Log(r, "update_balance:error")
          /\ UNCHANGED users
    /\ Goto(r, "notify")
    /\ UNCHANGED << transactions, fraud_alerts, notifications, audit_logs, req, locals >>
    /\ UNCHANGED scanVars

\* line 382, 390: amount.toFixed(2) in the notification messages; toFixed is a
\* method of numbers, the call throws a TypeError on a string
toFixedThrows(b) == b.amount_type # "number"

\* line 375-422: queue the two notifications, answer 201; an exception raised
\* while the rows are built is caught at line 414 and answered 500
QueueNotifications(r) ==
    /\ pc[r] = "notify"
    /\ IF toFixedThrows(req[r])
       THEN /\ Log(r, "notifications:throw")
            /\ Respond(r, sendError("Server error during payment",
                                    ErrorCodes.SERVER_ERROR, 500))
            /\ UNCHANGED << notifications, faults >>
       ELSE /\ \/ /\ notifications' = notifications \o
                        << [user_id |-> req[r].user_id, transaction_id |-> uuidv4(r),
                            notification_type |-> "sms", status |-> "queued"],
                           [user_id |-> "", transaction_id |-> uuidv4(r),
                            notification_type |-> "push", status |-> "queued"] >>
                  /\ Log(r, "notifications:ok")
                  /\ UNCHANGED faults
               \/ /\ faults < MaxFaults
                  /\ faults' = faults + 1
                  /\ Log(r, "notifications:error")
                  /\ UNCHANGED notifications
            /\ Respond(r, PaymentResponse(
                   TransactionRow(r, req[r], locals[r].balance, locals[r].distance)))
    /\ UNCHANGED << users, transactions, fraud_alerts, audit_logs, req, locals >>
    /\ UNCHANGED scanVars

(***************************************************************************)
(* router.post('/process'), routes/payment.js:13-205                       *)
(***************************************************************************)
\* line 210-214: 'EM' + timestamp + random, a fresh code per invocation
generateReferenceCode(r) == "EM" \o ToString(r)

\* line 83: parseFloat(userData.balance) < parseFloat(amount)
RouterInsufficient(balance, amount) == balance < amount

\* line 94-100: merchantData?.commission_rate || 0.05, a whole percentage
commissionRate(merchant_id) ==
    IF merchant_id \in DOMAIN Merchants /\ Merchants[merchant_id].commission_rate # 0
    THEN Merchants[merchant_id].commission_rate
    ELSE 5

\* line 116-138: the Transaction row
RouterTransactionRow(r, b, balanceBefore) ==
    [transaction_id |-> uuidv4(r),
     user_id |-> b.user_id,
     merchant_id |-> b.merchant_id,
     device_id |-> b.device_id,
     amount |-> b.amount,
     merchant_commission |-> merchant_commission(b.amount, commissionRate(b.merchant_id)),
     net_amount |-> net_amount(b.amount, commissionRate(b.merchant_id)),
     origin_stop |-> IF TruthyStr(b.origin_stop) THEN b.origin_stop ELSE "Unknown",
     status |-> "success",
     reference_code |-> generateReferenceCode(r),
     auto_detected_origin |-> TruthyStr(b.origin_stop),
     nearest_stop_distance_meters |-> NoCoord,
     user_balance_before |-> balanceBefore,
     user_balance_after |-> balanceBefore - b.amount]

\* line 186-195
RouterResponse(t) ==
    [statusCode |-> 200, success |-> TRUE,
     data |-> [transaction_id |-> t.transaction_id,
               reference_code |-> t.reference_code,
               amount |-> t.amount,
               new_balance |-> t.user_balance_after]]

RouterError(message, statusCode) ==
    [statusCode |-> statusCode, success |-> FALSE, error |-> message, code |-> ""]

\* line 19-89: required fields, load the account, PIN and balance checks
RouterGetUser(r) ==
    /\ pc[r] = "idle"
    /\ \E b \in RouterInputsOf(r) :
         /\ req' = [req EXCEPT ![r] = b]
         /\ IF ~TruthyStr(b.merchant_id) \/ b.amount = 0 \/ ~TruthyStr(b.pin)
            THEN Respond(r, RouterError("Missing required fields", 400))
                 /\ UNCHANGED locals
            ELSE IF b.user_id \notin DOMAIN users
            THEN Respond(r, RouterError("User not found", 404))
                 /\ UNCHANGED locals
            ELSE IF ~pinMatch(b.pin, users[b.user_id].pin_hash)
            THEN Respond(r, RouterError("Invalid PIN", 401))
                 /\ UNCHANGED locals
            ELSE IF RouterInsufficient(users[b.user_id].balance, b.amount)
            THEN Respond(r, RouterError("Insufficient balance", 400))
                 /\ UNCHANGED locals
            ELSE /\ Goto(r, "r_get_merchant")
                 /\ locals' = [locals EXCEPT ![r].balance = users[b.user_id].balance]
    /\ UNCHANGED << users, transactions, fraud_alerts, notifications, audit_logs,
                    log, faults >>
    /\ UNCHANGED scanVars

\* line 93-109: load the merchant's commission rate
RouterGetMerchant(r) ==
    /\ pc[r] = "r_get_merchant"
    /\ Goto(r, "r_insert_txn")
    /\ UNCHANGED << users, transactions, fraud_alerts, notifications, audit_logs,
                    req, locals, log, faults >>
    /\ UNCHANGED scanVars

\* line 113-148: insert the Transaction row
RouterInsertTransaction(r) ==
    /\ pc[r] = "r_insert_txn"
    /\ LET row == RouterTransactionRow(r, req[r], locals[r].balance)
           ins == InsertUnique(transactions, row)
       IN \/ /\ ins.error = ""
             /\ transactions' = ins.table
             /\ Goto(r, "r_update_balance")
             /\ Log(r, "insert_txn:ok")
             /\ UNCHANGED faults
          \/ /\ faults < MaxFaults
             /\ faults' = faults + 1
             /\ Respond(r, RouterError("Failed to create transaction", 500))
             /\ Log(r, "insert_txn:error")
             /\ UNCHANGED transactions
    /\ UNCHANGED << users, fraud_alerts, notifications, audit_logs, req, locals >>
    /\ UNCHANGED scanVars

\* line 153-163: write the new balance; an error is logged and nothing else
RouterUpdateBalance(r) ==
    /\ pc[r] = "r_update_balance"
    /\ \/ /\ users' = [users EXCEPT ![req[r].user_id].balance =
                                       locals[r].balance - req[r].amount]
          /\ Log(r, "update_balance:ok")
          /\ UNCHANGED faults
       \/ /\ faults < MaxFaults
          /\ faults' = faults + 1
          /\ Log(r, "update_balance:error")
          /\ UNCHANGED users
    /\ Goto(r, "r_audit")
    /\ UNCHANGED << transactions, fraud_alerts, notifications, audit_logs, req, locals >>
    /\ UNCHANGED scanVars

\* line 165-195: write the audit log entry, answer 200
RouterAuditLog(r) ==
    /\ pc[r] = "r_audit"
    /\ \/ /\ audit_logs' = Insert(audit_logs,
                [user_id |-> req[r].user_id, action |-> "payment_processed",
                 entity_id |-> uuidv4(r)])
          /\ Log(r, "audit_log:ok")
          /\ UNCHANGED faults
       \/ /\ faults < MaxFaults
          /\ faults' = faults + 1
          /\ Log(r, "audit_log:error")
          /\ UNCHANGED audit_logs
    /\ Respond(r, RouterResponse(RouterTransactionRow(r, req[r], locals[r].balance)))
    /\ UNCHANGED << users, transactions, fraud_alerts, notifications, req, locals >>
    /\ UNCHANGED scanVars

Next ==
    \E r \in Requests :
        \/ CheckIdempotency(r)
        \/ GetUser(r)
        \/ GetDevice(r)
        \/ GetRoute(r)
        \/ InsertFraudAlert(r)
        \/ InsertTransaction(r)
        \/ UpdateBalance(r)
        \/ QueueNotifications(r)
        \/ RouterGetUser(r)
        \/ RouterGetMerchant(r)
        \/ RouterInsertTransaction(r)
        \/ RouterUpdateBalance(r)
        \/ RouterAuditLog(r)

Spec == Init /\ [][Next]_vars

(***************************************************************************)
(* utils/gps.js findNearestStop and getConfidenceLevel                     *)
(***************************************************************************)
\* gps.js:58  the stop of the iteration replaces the nearest one found so far
Closer(distance, minDistance) == distance < minDistance

\* gps.js:45-65: the loop over the stops from the i-th on; nearest = NoStop is
\* nearest = null with minDistance = Infinity
RECURSIVE findNearestStopFrom(_, _, _, _, _)
findNearestStopFrom(latitude, longitude, stops, i, nearest) ==
    IF i > Len(stops)
    THEN nearest
    ELSE LET stop == stops[i] IN
         IF ~TruthyNum(stop.latitude) \/ ~TruthyNum(stop.longitude)
         THEN findNearestStopFrom(latitude, longitude, stops, i + 1, nearest)
         ELSE LET distance == calculateDistance(latitude, longitude,
                                                stop.latitude, stop.longitude)
              IN IF nearest = NoStop \/ Closer(distance, nearest.distance_meters)
                 THEN findNearestStopFrom(latitude, longitude, stops, i + 1,
                          [id |-> stop.id, name |-> stop.name,
                           latitude |-> stop.latitude, longitude |-> stop.longitude,
                           distance_meters |-> distance])
                 ELSE findNearestStopFrom(latitude, longitude, stops, i + 1, nearest)

\* gps.js:37-68
findNearestStop(latitude, longitude, stops) ==
    IF Len(stops) = 0
    THEN NoStop
    ELSE findNearestStopFrom(latitude, longitude, stops, 1, NoStop)

\* a distance equal to a limit falls into the nearer class
getConfidenceLevel_Inclusive(distanceMeters) ==
    IF distanceMeters <= GPS_CONFIDENCE_THRESHOLD_METERS
    THEN "high"
    ELSE IF distanceMeters <= GPS_CONFIDENCE_THRESHOLD_METERS * 2
    THEN "medium"
    ELSE "low"

\* gps.js:75-85
getConfidenceLevel(distanceMeters) ==
    IF distanceMeters < GPS_CONFIDENCE_THRESHOLD_METERS
    THEN "high"
    ELSE IF distanceMeters < GPS_CONFIDENCE_THRESHOLD_METERS * 2
    THEN "medium"
    ELSE "low"

(***************************************************************************)
(* routes/qr.js: the helpers of router.post('/scan')                       *)
(***************************************************************************)
\* routes/qr.js:143-154: the haversine distance without rounding; on one
\* meridian it is R * |dLat|, here in units of 1e-6 m
calculateDistanceKm(lat1, lon1, lat2, lon2) ==
    CASE lon1 = lon2 -> Abs(lat2 - lat1) * 1111949

\* routes/qr.js:120-134: the loop over the stops from the i-th on;
\* minDistance = -1 is Infinity
RECURSIVE qrFindNearestStopFrom(_, _, _, _, _, _)
qrFindNearestStopFrom(userLat, userLng, stops, i, nearestStop, minDistance) ==
    IF i > Len(stops)
    THEN nearestStop
    ELSE LET stop == stops[i] IN
         IF TruthyNum(stop.gps.lat) /\ TruthyNum(stop.gps.lng)
         THEN LET distance == calculateDistanceKm(userLat, userLng,
                                                  stop.gps.lat, stop.gps.lng)
              IN IF minDistance = -1 \/ distance < minDistance
                 THEN qrFindNearestStopFrom(userLat, userLng, stops, i + 1,
                                            stop.name, distance)
                 ELSE qrFindNearestStopFrom(userLat, userLng, stops, i + 1,
                                            nearestStop, minDistance)
         ELSE qrFindNearestStopFrom(userLat, userLng, stops, i + 1,
                                    nearestStop, minDistance)

\* routes/qr.js:114-137: the name of the nearest stop; the search starts from
\* the name of the route's first stop
qrFindNearestStop(userLat, userLng, stops) ==
    IF Len(stops) = 0
    THEN "Unknown"
    ELSE qrFindNearestStopFrom(userLat, userLng, stops, 1, stops[1].name, -1)

(***************************************************************************)
(* scanQR, paymentController.js:11-185, behind the chain of routes/qr.js   *)
(* line 168: authenticateToken, qrScanValidation, checkValidation.         *)
(***************************************************************************)
\* validation.js:81-91
qrScanValidation(b) == TruthyStr(b.device_token)

\* line 93: GPS-based detection is attempted
GpsAvailable(device, gps) ==
    /\ device.gps_enabled
    /\ TruthyNum(gps.last_gps_latitude)
    /\ TruthyNum(gps.last_gps_longitude)

\* line 95-98: gpsAge > maxAge
GpsStale(gps, now) == now - gps.last_gps_updated_at > MAX_AGE

\* line 130: stops.findIndex(s => s.id === id), counted from 1; 0 is the -1 of
\* an id that no stop has
findIndex(stops, id) ==
    LET found == { i \in DOMAIN stops : stops[i].id = id }
    IN IF found = {} THEN 0 ELSE CHOOSE i \in found : \A j \in found : i <= j

\* the stops from the origin on
availableDestinations_FromOrigin(stops, originIndex) ==
    [ i \in 1..(Len(stops) - originIndex + 1) |->
        [id |-> stops[originIndex + i - 1].id,
         name |-> stops[originIndex + i - 1].name] ]

\* line 131-136: stops.filter((s, idx) => idx > originIndex).map(...)
availableDestinations(stops, originIndex) ==
    [ i \in 1..(Len(stops) - originIndex) |->
        [id |-> stops[originIndex + i].id, name |-> stops[originIndex + i].name] ]

\* the fare rules of the route from the origin, expired ones included
activeFares_All(route_id, origin_stop_id) ==
    { f \in FareRules : /\ f.route_id = route_id
                        /\ f.origin_stop_id = origin_stop_id }

\* line 140-145: the fare rules of the route from the origin without
\* effective_until
activeFares(route_id, origin_stop_id) ==
    { f \in FareRules : /\ f.route_id = route_id
                        /\ f.origin_stop_id = origin_stop_id
                        /\ f.effective_until = "" }

\* line 148-154: each destination with the fare of the rule found for it
attachFares(destinations, fares) ==
    [ i \in DOMAIN destinations |->
        LET rules == { f \in fares : f.destination_stop_id = destinations[i].id }
        IN [id |-> destinations[i].id, name |-> destinations[i].name,
            fare |-> IF rules = {} THEN NoFare
                     ELSE (CHOOSE f \in rules : TRUE).fare_amount] ]

\* no gps_detection in the response
NoDetection ==
    [status |-> "absent", detected_origin |-> "", confidence |-> "",
     distance_meters |-> NoCoord,
     matatu_gps |-> [latitude |-> NoCoord, longitude |-> NoCoord],
     all_stops |-> << >>]

\* line 118-127 (status "detected" marks this object, which has no status)
Detection(nearestStop, gps) ==
    [status |-> "detected", detected_origin |-> nearestStop.id,
     confidence |-> getConfidenceLevel(nearestStop.distance_meters),
     distance_meters |-> nearestStop.distance_meters,
     matatu_gps |-> [latitude |-> gps.last_gps_latitude,
                     longitude |-> gps.last_gps_longitude],
     all_stops |-> << >>]

\* line 160-166: manual selection of the boarding point
ManualSelection(stops) ==
    [status |-> "unavailable", detected_origin |-> "", confidence |-> "",
     distance_meters |-> NoCoord,
     matatu_gps |-> [latitude |-> NoCoord, longitude |-> NoCoord],
     all_stops |-> stops]

\* line 79-84, 168-172: responseData
ScanData(device, gps_detection, available_destinations) ==
    [merchant_id |-> device.merchants.merchant_id,
     merchant_type |-> device.merchants.merchant_type,
     gps_detection |-> gps_detection,
     available_destinations |-> available_destinations,
     requires_amount_input |-> device.merchants.merchant_type = "shop"]

ScanRespond(r, b, l, response) ==
    scan' = [scan EXCEPT ![r] = [pc |-> "done", req |-> b, locals |-> l,
                                 res |-> response]]

ScanGoto(r, b, l, label) ==
    scan' = [scan EXCEPT ![r] = [pc |-> label, req |-> b, locals |-> l,
                                 res |-> NoResponse]]

paymentVars ==
    << users, transactions, fraud_alerts, notifications, audit_logs, pc, req,
       locals, res, log >>

\* line 11-136, 160-185: validate the body, read the device with its merchant
\* and route, detect the origin from the vehicle's position
ScanQR(r) ==
    /\ scan[r].pc = "idle"
    /\ \E b \in ScanInputsOf(r) :
         LET rows == { d \in DOMAIN Devices : Devices[d].device_token = b.device_token }
         IN IF ~qrScanValidation(b)
            THEN /\ ScanRespond(r, b, NoScanLocals,
                        sendError("Validation failed", ErrorCodes.INVALID_INPUT, 400))
                 /\ UNCHANGED clock
            ELSE IF rows = {}
            THEN /\ ScanRespond(r, b, NoScanLocals,
                        sendError("Invalid QR code", ErrorCodes.INVALID_QR, 404))
                 /\ UNCHANGED clock
            ELSE
              LET d == CHOOSE x \in rows : TRUE
                  device == Devices[d]
                  gps == device_gps[d]
                  l == [NoScanLocals EXCEPT !.device = d, !.gps = gps]
              IN IF device.status # "active"
                 THEN /\ ScanRespond(r, b, l,
                             sendError("QR code has been revoked or expired",
                                       ErrorCodes.INVALID_QR, 403))
                      /\ UNCHANGED clock
                 ELSE IF device.merchants.status # "active"
                 THEN /\ ScanRespond(r, b, l,
                             sendError("Merchant account is suspended",
                                       ErrorCodes.MERCHANT_INACTIVE, 403))
                      /\ UNCHANGED clock
                 ELSE IF device.merchants.merchant_type = "transport"
                         /\ device.route_id \in DOMAIN Routes
                 THEN LET stops == Routes[device.route_id].stops IN
                      IF GpsAvailable(device, gps)
                      THEN \E now \in Times :
                             /\ now >= clock
                             /\ clock' = now
                             /\ IF GpsStale(gps, now)
                                THEN ScanRespond(r, b, [l EXCEPT !.now = now],
                                         sendError("Matatu GPS not updated recently",
                                                   ErrorCodes.GPS_UNAVAILABLE, 503))
                                ELSE
                                  LET nearestStop ==
                                          findNearestStop(gps.last_gps_latitude,
                                                          gps.last_gps_longitude, stops)
                                      dests == availableDestinations(
                                                   stops, findIndex(stops, nearestStop.id))
                                      ll == [l EXCEPT !.now = now,
                                                      !.nearestStop = nearestStop]
                                  IN IF nearestStop = NoStop
                                     THEN ScanRespond(r, b, ll,
                                              sendSuccess(ScanData(device, NoDetection, << >>),
                                                          "Success", 200))
                                     ELSE IF Len(dests) > 0
                                     THEN ScanGoto(r, b, [ll EXCEPT !.destinations = dests],
                                                   "scan_fares")
                                     ELSE ScanRespond(r, b, ll,
                                              sendSuccess(
                                                  ScanData(device,
                                                           Detection(nearestStop, gps),
                                                           << >>),
                                                  "Success", 200))
                      ELSE /\ ScanRespond(r, b, l,
                                  sendSuccess(ScanData(device, ManualSelection(stops), << >>),
                                              "Success", 200))
                           /\ UNCHANGED clock
                 ELSE /\ ScanRespond(r, b, l,
                             sendSuccess(ScanData(device, NoDetection, << >>),
                                         "Success", 200))
                      /\ UNCHANGED clock
    /\ UNCHANGED << paymentVars, faults, device_gps >>

\* line 138-158, 174: read the fares from the origin, attach them, answer
ScanFares(r) ==
    /\ scan[r].pc = "scan_fares"
    /\ LET l == scan[r].locals
           device == Devices[l.device]
           fares == activeFares(device.route_id, l.nearestStop.id)
       IN ScanRespond(r, scan[r].req, l,
              sendSuccess(ScanData(device, Detection(l.nearestStop, l.gps),
                                   attachFares(l.destinations, fares)),
                          "Success", 200))
    /\ UNCHANGED << paymentVars, faults, device_gps, clock >>

(***************************************************************************)
(* router.post('/scan'), routes/qr.js:12-109                               *)
(***************************************************************************)
\* line 58: both coordinates of the payer's position are supplied
HasUserGps(b) == TruthyNum(b.user_gps_latitude) /\ TruthyNum(b.user_gps_longitude)

\* line 70-108: the answer; a device without route makes
\* deviceData.routes.route_id throw, which the catch answers with 500
QrScanResponse(device, b) ==
    IF device.route_id \notin DOMAIN Routes
    THEN RouterError("Failed to process QR code", 500)
    ELSE LET stops == Routes[device.route_id].stops
         IN [statusCode |-> 200, success |-> TRUE,
             data |-> [device_id |-> device.device_id,
                       merchant_id |-> device.merchants.merchant_id,
                       route_id |-> device.route_id,
                       boarding_stop |->
                           IF HasUserGps(b) /\ Len(stops) > 0
                           THEN qrFindNearestStop(b.user_gps_latitude,
                                                  b.user_gps_longitude, stops)
                           ELSE "Unknown",
                       stops |-> stops]]

\* line 60-64: the position columns the scan writes
QrDeviceUpdate(gps, b, now) ==
    [last_gps_latitude |-> b.user_gps_latitude,
     last_gps_longitude |-> b.user_gps_longitude,
     last_gps_updated_at |-> now]

\* line 12-56: required field, read the active device of the token
QrScan(r) ==
    /\ scan[r].pc = "idle"
    /\ \E b \in QrScanInputsOf(r) :
         LET rows == { d \in DOMAIN Devices :
                          /\ Devices[d].device_token = b.device_token
                          /\ Devices[d].status = "active" }
         IN IF ~TruthyStr(b.device_token)
            THEN /\ ScanRespond(r, b, NoScanLocals,
                                RouterError("Device token required", 400))
                 /\ UNCHANGED clock
            ELSE IF rows = {}
            THEN /\ ScanRespond(r, b, NoScanLocals,
                                RouterError("Invalid QR code", 404))
                 /\ UNCHANGED clock
            ELSE LET d == CHOOSE x \in rows : TRUE
                     l == [NoScanLocals EXCEPT !.device = d, !.gps = device_gps[d]]
                 IN IF HasUserGps(b)
                    THEN \E now \in Times :
                           /\ now >= clock
                           /\ clock' = now
                           /\ ScanGoto(r, b, [l EXCEPT !.now = now], "qr_update_gps")
                    ELSE /\ ScanRespond(r, b, l, QrScanResponse(Devices[d], b))
                         /\ UNCHANGED clock
    /\ UNCHANGED << paymentVars, faults, device_gps >>

\* line 58-108: write the payer's position into the device's row (the call's
\* error is not read), answer
QrUpdateGps(r) ==
    /\ scan[r].pc = "qr_update_gps"
    /\ LET l == scan[r].locals
           b == scan[r].req
       IN /\ \/ /\ device_gps' = [device_gps EXCEPT ![l.device] =
                                     QrDeviceUpdate(@, b, l.now)]
                /\ UNCHANGED faults
             \/ /\ faults < MaxFaults
                /\ faults' = faults + 1
                /\ UNCHANGED device_gps
          /\ ScanRespond(r, b, l, QrScanResponse(Devices[l.device], b))
    /\ UNCHANGED << paymentVars, clock >>

NextScan ==
    \E r \in Requests :
        \/ ScanQR(r)
        \/ ScanFares(r)
        \/ QrScan(r)
        \/ QrUpdateGps(r)

SpecScan == Init /\ [][NextScan]_vars

(***************************************************************************)
(* Auxiliary definitions of the properties.                                *)
(***************************************************************************)
Done(r) == pc[r] = "done"

Called(r, entry) == entry \in log[r]

\* the Transaction rows with status success of one account
SuccessOf(u) ==
    { i \in DOMAIN transactions :
        transactions[i].user_id = u /\ transactions[i].status = "success" }

RECURSIVE SumAmounts(_)
SumAmounts(idx) ==
    IF idx = {} THEN 0
    ELSE LET i == CHOOSE x \in idx : TRUE
         IN transactions[i].amount + SumAmounts(idx \ {i})

\* the row was inserted by processPayment
ByController(t) == req[t.transaction_id].endpoint = "controller"

\* the committed Transaction rows with a reference code
Committed(key) == { t \in Range(transactions) : t.reference_code = key }

\* the request went past the device lookup, to the fraud gate
ReachedGate(r) ==
    /\ Called(r, "lookup:miss")
    /\ \/ res[r].success
       \/ res[r].code \in {ErrorCodes.ORIGIN_MISMATCH, ErrorCodes.SERVER_ERROR}

AlertsOf(r) == { i \in DOMAIN fraud_alerts : fraud_alerts[i].request = r }

(***************************************************************************)
(* C1 - Idempotency: two requests with the same reference code and the     *)
(* same arguments, one of which committed the payment, cause exactly one   *)
(* balance decrement and both receive the same transaction_id (no store    *)
(* call having failed).                                                    *)
(***************************************************************************)
C1_Idempotency ==
    \A r1, r2 \in Requests :
        ( /\ r1 # r2
          /\ Done(r1) /\ Done(r2)
          /\ req[r1] = req[r2]
          /\ req[r1].endpoint = "controller"
          /\ faults = 0
          /\ \E t \in Committed(req[r1].idempotency_key) :
                t.transaction_id = uuidv4(r1) )
        => /\ Cardinality({ r \in {r1, r2} : Called(r, "update_balance:ok") }) = 1
           /\ res[r1].success /\ res[r2].success
           /\ res[r1].data.transaction_id = res[r2].data.transaction_id

(***************************************************************************)
(* C2 - No double spend: two payments of one account with different        *)
(* reference codes whose amounts sum to more than the balance never both   *)
(* end in a success Transaction (no store call having failed).             *)
(***************************************************************************)
C2_NoDoubleSpend ==
    faults = 0 =>
        \A u \in DOMAIN users : \A i, j \in SuccessOf(u) :
            ( /\ i # j
              /\ ByController(transactions[i]) /\ ByController(transactions[j])
              /\ transactions[i].reference_code # transactions[j].reference_code
              /\ transactions[i].amount <= InitialBalance
              /\ transactions[j].amount <= InitialBalance )
            => transactions[i].amount + transactions[j].amount <= InitialBalance

(***************************************************************************)
(* C3 - Balance conservation: once every request has finished, each        *)
(* account's balance is its initial balance minus the sum of the amounts   *)
(* of its success Transactions (no store call having failed).              *)
(***************************************************************************)
C3_BalanceConservation ==
    ( faults = 0 /\ \A r \in Requests : pc[r] \in {"idle", "done"} )
    => \A u \in DOMAIN users :
          users[u].balance = UsersInit[u].balance - SumAmounts(SuccessOf(u))

(***************************************************************************)
(* C4 - Balance invariant: every account's balance is >= 0 in every        *)
(* reachable state.                                                        *)
(***************************************************************************)
C4_BalanceNonNegative ==
    \A u \in DOMAIN users : users[u].balance >= 0

\* two payments were debited from one account, the second from the reduced balance
C4_Witness ==
    \E u \in DOMAIN users : \E i, j \in SuccessOf(u) :
        /\ i # j
        /\ transactions[j].user_balance_before < InitialBalance
        /\ users[u].balance = transactions[j].user_balance_after

(***************************************************************************)
(* C5 - Atomic commit: when a request has finished and its success         *)
(* Transaction exists, its balance decrement was written too.              *)
(***************************************************************************)
C5_AtomicCommit ==
    \A r \in Requests :
        ( /\ Done(r)
          /\ \E t \in Range(transactions) :
                t.transaction_id = uuidv4(r) /\ t.status = "success" )
        => Called(r, "update_balance:ok")

(***************************************************************************)
(* C6 - At most one Transaction exists per reference_code.                 *)
(***************************************************************************)
C6_OneTxnPerReference ==
    \A i, j \in DOMAIN transactions :
        i # j => transactions[i].reference_code # transactions[j].reference_code

\* two requests with one reference code both reached the insert
C6_Witness ==
    \E r \in Requests :
        /\ Called(r, "insert_txn:duplicate")
        /\ Committed(req[r].idempotency_key) # {}

(***************************************************************************)
(* C7 - Replay has no side effects: a request that arrives when a          *)
(* Transaction with its reference code exists is answered with that        *)
(* transaction and ends, and no table changes, whatever its other          *)
(* arguments are.                                                          *)
(***************************************************************************)
C7_ReplayNoSideEffects ==
    [][ \A r \in Requests :
          ( /\ pc[r] = "idle" /\ pc'[r] # "idle"
            /\ req'[r].endpoint = "controller"
            /\ Committed(req'[r].idempotency_key) # {} )
          => /\ pc'[r] = "done"
             /\ res'[r].success
             /\ \E t \in Committed(req'[r].idempotency_key) :
                   res'[r].data.transaction_id = t.transaction_id
             /\ UNCHANGED << users, transactions, fraud_alerts, notifications,
                             audit_logs >>
      ]_vars

\* a replay whose amount differs from the committed transaction's was answered
C7_Witness ==
    \E r \in Requests :
        /\ Called(r, "lookup:hit")
        /\ \E t \in Committed(req[r].idempotency_key) :
              /\ t.amount # req[r].amount
              /\ res[r].data.transaction_id = t.transaction_id

(***************************************************************************)
(* C8 - The first call and a later call with the same reference code and   *)
(* the same arguments return structurally identical successful results.    *)
(***************************************************************************)
C8_IdenticalResults ==
    \A r1, r2 \in Requests :
        ( /\ r1 # r2
          /\ Done(r1) /\ Done(r2)
          /\ req[r1] = req[r2]
          /\ req[r1].endpoint = "controller"
          /\ faults = 0
          /\ res[r1].success /\ res[r2].success )
        => res[r1].data = res[r2].data

(***************************************************************************)
(* C9 - A request whose Transaction insert is refused as a duplicate key   *)
(* is answered with the committed transaction, not with an error.          *)
(***************************************************************************)
C9_DuplicateIsReplay ==
    \A r \in Requests :
        ( Done(r) /\ Called(r, "insert_txn:duplicate") )
        => /\ res[r].success
           /\ \E t \in Committed(req[r].idempotency_key) :
                 res[r].data.transaction_id = t.transaction_id

(***************************************************************************)
(* C10 - Fraud threshold boundary: a request that reaches the gate with a  *)
(* claimed origin stop that has coordinates and a GPS fix is rejected      *)
(* with OriginMismatch and exactly one FraudAlert when the distance is     *)
(* greater than the maximum, and is not rejected when it is at most the    *)
(* maximum (no store call having failed).                                  *)
(***************************************************************************)
C10_FraudThreshold ==
    \A r \in Requests :
        ( /\ Done(r) /\ faults = 0 /\ ReachedGate(r)
          /\ req[r].route_id \in DOMAIN Routes
          /\ req[r].gps_latitude # NoCoord /\ req[r].gps_longitude # NoCoord )
        => \A s \in selectedStop(Routes[req[r].route_id].stops, req[r].origin_stop) :
              ( s.latitude # NoCoord /\ s.longitude # NoCoord )
              => LET d == calculateDistance(req[r].gps_latitude, req[r].gps_longitude,
                                            s.latitude, s.longitude)
                 IN IF d > GPS_MAX_DISTANCE_METERS
                    THEN /\ ~res[r].success
                         /\ res[r].code = ErrorCodes.ORIGIN_MISMATCH
                         /\ Cardinality(AlertsOf(r)) = 1
                    ELSE /\ res[r].success \/ res[r].code # ErrorCodes.ORIGIN_MISMATCH
                         /\ AlertsOf(r) = {}

(***************************************************************************)
(* C11 - Effect of a fraud rejection: a request rejected with              *)
(* OriginMismatch whose alert write the store accepted has appended        *)
(* exactly one FraudAlert, with alert_type suspicious_origin, risk_score   *)
(* 75, alert_level high and null transaction_id, which stays in the table  *)
(* from then on; the request has created no Transaction, written no        *)
(* balance and queued no notification.                                     *)
(***************************************************************************)
RejectedByGate(r) ==
    /\ Done(r)
    /\ ~res[r].success
    /\ res[r].code = ErrorCodes.ORIGIN_MISMATCH

LocalFailure(r) ==
    /\ Done(r)
    /\ ~res[r].success
    /\ \/ res[r].code \in {ErrorCodes.USER_NOT_FOUND, ErrorCodes.ACCOUNT_SUSPENDED,
                            ErrorCodes.INVALID_PIN, ErrorCodes.INSUFFICIENT_BALANCE}
       \/ /\ req[r].endpoint = "router"
          /\ res[r].error \in {"User not found", "Invalid PIN", "Insufficient balance"}

C12_LocalFailureNoEffect ==
    /\ [](\A r \in Requests :
            /\ LocalFailure(r)
               => /\ \A t \in Range(transactions) : t.transaction_id # uuidv4(r)
                  /\ log[r] \subseteq {"lookup:miss"}
            /\ Called(r, "update_balance:ok")
               => req[r].pin = users[req[r].user_id].pin_hash)
    /\ [][\A r \in Requests :
            LocalFailure(r) => /\ pc'[r] = pc[r]
                               /\ res'[r] = res[r]
                               /\ log'[r] = log[r]]_vars

\* one request was refused for a wrong PIN and another one of the same account
\* was debited
C12_Witness ==
    \E r1, r2 \in Requests :
        /\ LocalFailure(r1)
        /\ req[r1].pin # PIN_OK
        /\ req[r1].user_id = req[r2].user_id
        /\ Called(r2, "update_balance:ok")

(***************************************************************************)
(* C13 - Invalid amount: a payment request whose amount is zero or         *)
(* negative is rejected as invalid input (status 400) without a store      *)
(* write: no Transaction of the request exists and no balance is written;  *)
(* and no account's balance ever exceeds its initial balance.              *)
(***************************************************************************)
C13_InvalidAmountRejected ==
    /\ \A r \in Requests :
          ( pc[r] # "idle" /\ req[r].amount <= 0 )
          => /\ \A t \in Range(transactions) : t.transaction_id # uuidv4(r)
             /\ log[r] \subseteq {"lookup:miss", "lookup:hit"}
             /\ Done(r) => ( ~res[r].success /\ res[r].statusCode = 400 )
    /\ \A u \in DOMAIN users : users[u].balance <= UsersInit[u].balance

(***************************************************************************)
(* C14 - Account status: no success Transaction exists for an account      *)
(* whose status is not active, and no payment request of such an account,  *)
(* through either route, is answered with a success.                       *)
(***************************************************************************)
C14_NoTxnForInactiveAccount ==
    /\ \A t \in Range(transactions) :
          t.status = "success" => users[t.user_id].status = "active"
    /\ \A r \in Requests :
          ( /\ Done(r)
            /\ req[r].user_id \in DOMAIN users
            /\ users[req[r].user_id].status # "active" )
          => ~res[r].success

(***************************************************************************)
(* C15 - Device resolution: no success Transaction exists for a device     *)
(* that is not active or whose merchant is not active, and no payment      *)
(* request that names such a device is answered with a success.            *)
(***************************************************************************)
DeviceUsable(d) ==
    /\ d \in DOMAIN Devices
    /\ Devices[d].status = "active"
    /\ Devices[d].merchants.status = "active"

C15_NoTxnForInactiveDevice ==
    /\ \A t \in Range(transactions) :
          ( t.status = "success" /\ ByController(t) ) => DeviceUsable(t.device_id)
    /\ \A r \in Requests :
          ( /\ Done(r)
            /\ req[r].endpoint = "controller"
            /\ Called(r, "lookup:miss")
            /\ ~DeviceUsable(req[r].device_id) )
          => ~res[r].success

(***************************************************************************)
(* C16 - Post-commit side effects are best-effort: a finished request      *)
(* whose Transaction was committed and whose notification or audit-log     *)
(* step failed (the store refused the write, or the step raised an         *)
(* exception) was answered with a success, and its Transaction is kept.    *)
(***************************************************************************)
SideEffectFailed(r) ==
    \/ Called(r, "notifications:error")
    \/ Called(r, "notifications:throw")
    \/ Called(r, "audit_log:error")

C16_SideEffectsBestEffort ==
    \A r \in Requests :
        ( Done(r) /\ Called(r, "insert_txn:ok") /\ SideEffectFailed(r) )
        => /\ res[r].success
           /\ \E t \in Range(transactions) : t.transaction_id = uuidv4(r)

(***************************************************************************)
(* C17 - Failure of the FraudAlert write: a request on the rejection path  *)
(* whose alert write the store refused is answered OriginMismatch (400,    *)
(* not a server error), has created no Transaction and has written no      *)
(* balance.                                                                *)
(***************************************************************************)
C17_AlertFailureKeepsResponse ==
    \A r \in Requests :
        ( Done(r) /\ Called(r, "fraud_alert:error") )
        => /\ ~res[r].success
           /\ res[r].code = ErrorCodes.ORIGIN_MISMATCH
           /\ res[r].statusCode = 400
           /\ \A t \in Range(transactions) : t.transaction_id # uuidv4(r)
           /\ log[r] = {"lookup:miss", "fraud_alert:error"}

\* the alert write of a rejected payment failed: the request is answered and no
\* alert of it is in the table
C17_Witness ==
    \E r \in Requests :
        /\ Done(r) /\ Called(r, "fraud_alert:error")
        /\ AlertsOf(r) = {}
        /\ faults > 0

(***************************************************************************)
(* C19 - Every successful payment creates exactly one Transaction with     *)
(* status success whose balance_after is balance_before - amount; the      *)
(* step that debits the account finds the balance equal to that            *)
(* balance_before and leaves it equal to that balance_after (no store      *)
(* call having failed).                                                    *)
(***************************************************************************)
TxnOf(r) ==
    { t \in Range(transactions) : t.transaction_id = uuidv4(r) /\ t.status = "success" }

C19_TransactionMatchesDebit ==
    /\ [](\A r \in Requests :
            ( Done(r) /\ faults = 0 /\ res[r].success /\ Called(r, "lookup:miss") )
            => /\ Cardinality(TxnOf(r)) = 1
               /\ \A t \in TxnOf(r) :
                     t.user_balance_after = t.user_balance_before - t.amount
               /\ Called(r, "update_balance:ok"))
    /\ [][\A r \in Requests :
            ( /\ faults' = 0
              /\ req[r].endpoint = "controller"
              /\ ~Called(r, "update_balance:ok")
              /\ "update_balance:ok" \in log'[r] )
            => \E t \in TxnOf(r) :
                  /\ users[t.user_id].balance = t.user_balance_before
                  /\ users'[t.user_id].balance = t.user_balance_after]_vars

(***************************************************************************)
(* C20 - Through no entry point does the retransmission of an identical    *)
(* request debit the account a second time: of two requests with the same  *)
(* user and body, the second of which read the balance the first one's     *)
(* debit left, at most one has written a balance (no store call having     *)
(* failed).                                                                *)
(***************************************************************************)
C20_NoSecondDebitOnRetransmission ==
    \A r1, r2 \in Requests :
        ( /\ r1 # r2
          /\ faults = 0
          /\ pc[r1] # "idle" /\ pc[r2] # "idle"
          /\ req[r1] = req[r2]
          /\ Called(r1, "update_balance:ok")
          /\ \E t1 \in TxnOf(r1) : locals[r2].balance = t1.user_balance_after )
        => ~Called(r2, "update_balance:ok")

OriginBeyondMax(b) ==
    /\ GateCondition(b)
    /\ b.route_id \in DOMAIN Routes
    /\ \E s \in selectedStop(Routes[b.route_id].stops, b.origin_stop) :
          /\ TruthyNum(s.latitude) /\ TruthyNum(s.longitude)
          /\ calculateDistance(b.gps_latitude, b.gps_longitude, s.latitude, s.longitude)
                > GPS_MAX_DISTANCE_METERS

C22_GateBeforeLedger ==
    \A r \in Requests :
        ( Done(r) /\ req[r].endpoint = "controller" /\ Called(r, "lookup:miss") )
        => /\ req[r].device_id \notin DOMAIN Devices
              => ( ~res[r].success /\ res[r].code = ErrorCodes.INVALID_QR )
           /\ ( req[r].device_id \in DOMAIN Devices /\ OriginBeyondMax(req[r]) )
              => /\ ~res[r].success
                 /\ res[r].code = ErrorCodes.ORIGIN_MISMATCH
                 /\ Called(r, "fraud_alert:ok") \/ Called(r, "fraud_alert:error")

(***************************************************************************)
(* C23 - A payment request is processed only if it satisfies               *)
(* paymentValidation: no Transaction of processPayment has an absent       *)
(* (empty) reference_code, and a finished request to /payments/process     *)
(* without idempotency_key was answered INVALID_INPUT.                     *)
(***************************************************************************)
C23_ValidatedBeforeProcessing ==
    /\ \A t \in Range(transactions) : ByController(t) => TruthyStr(t.reference_code)
    /\ \A r \in Requests :
          ( /\ Done(r)
            /\ req[r].endpoint = "controller"
            /\ ~TruthyStr(req[r].idempotency_key) )
          => ( ~res[r].success /\ res[r].code = ErrorCodes.INVALID_INPUT )

(***************************************************************************)
(* C25 - The idempotency lookup is the first step, unconditionally: a      *)
(* request that arrives when a Transaction with its reference code exists  *)
(* is answered at once with that transaction (200, its transaction_id,     *)
(* status and amount), also when its PIN is wrong, the account is unknown  *)
(* or not active, or the balance is below the amount.                      *)
(***************************************************************************)
LedgerWouldRefuse(b) ==
    \/ b.user_id \notin DOMAIN users
    \/ users[b.user_id].status # "active"
    \/ b.pin # users[b.user_id].pin_hash
    \/ users[b.user_id].balance < b.amount

C25_LookupFirst ==
    [][ \A r \in Requests :
          ( /\ pc[r] = "idle" /\ pc'[r] # "idle"
            /\ req'[r].endpoint = "controller"
            /\ Committed(req'[r].idempotency_key) # {}
            /\ LedgerWouldRefuse(req'[r]) )
          => /\ pc'[r] = "done"
             /\ res'[r].success
             /\ res'[r].statusCode = 200
             /\ \E t \in Committed(req'[r].idempotency_key) :
                   res'[r].data = [transaction_id |-> t.transaction_id,
                                   status |-> t.status, amount |-> t.amount]
      ]_vars

\* a replay was answered with the committed transaction while the balance was
\* below its amount
C25_Witness ==
    \E r \in Requests :
        /\ Called(r, "lookup:hit")
        /\ res[r].success
        /\ users[req[r].user_id].balance < req[r].amount
        /\ \E t \in Committed(req[r].idempotency_key) :
              t.transaction_id # uuidv4(r)

(***************************************************************************)
(* C26 - Unknowable origin: a request that reaches the gate with a claimed *)
(* origin and a GPS fix, whose claimed stop is not in the route or carries *)
(* no coordinates, is accepted: it writes no FraudAlert, is not answered   *)
(* OriginMismatch, goes on to the Transaction insert, and its Transaction  *)
(* has a null nearest_stop_distance_meters.                                *)
(***************************************************************************)
UnknowableOrigin(b) ==
    /\ TruthyStr(b.route_id) /\ TruthyStr(b.origin_stop)
    /\ b.gps_latitude # NoCoord /\ b.gps_longitude # NoCoord
    /\ \/ b.route_id \notin DOMAIN Routes
       \/ \A s \in selectedStop(Routes[b.route_id].stops, b.origin_stop) :
             s.latitude = NoCoord \/ s.longitude = NoCoord

InsertAttempted(r) ==
    \/ Called(r, "insert_txn:ok")
    \/ Called(r, "insert_txn:duplicate")
    \/ Called(r, "insert_txn:error")

C26_UnknowableOriginAccepted ==
    \A r \in Requests :
        ( Done(r) /\ ReachedGate(r) /\ UnknowableOrigin(req[r]) )
        => /\ AlertsOf(r) = {}
           /\ ~Called(r, "fraud_alert:ok") /\ ~Called(r, "fraud_alert:error")
           /\ res[r].success \/ res[r].code # ErrorCodes.ORIGIN_MISMATCH
           /\ InsertAttempted(r)
           /\ \A t \in TxnOf(r) : t.nearest_stop_distance_meters = NoCoord

\* a payment that claimed a stop without coordinates, with a fix, was committed
C26_Witness ==
    \E r \in Requests :
        /\ Done(r) /\ res[r].success
        /\ UnknowableOrigin(req[r])
        /\ TruthyNum(req[r].gps_latitude)
        /\ req[r].origin_stop = "s2"
        /\ TxnOf(r) # {}

(***************************************************************************)
(* C27 - Provenance: a Transaction's auto_detected_origin flag is true     *)
(* only if its request claimed an origin stop together with a GPS fix; a   *)
(* payment with no route, no origin and no fix is not recorded as          *)
(* auto-detected.                                                          *)
(***************************************************************************)
C27_ProvenanceHonest ==
    \A t \in Range(transactions) :
        t.auto_detected_origin
        => LET b == req[t.transaction_id]
           IN /\ TruthyStr(b.origin_stop)
              /\ b.gps_latitude # NoCoord /\ b.gps_longitude # NoCoord

(***************************************************************************)
(* Auxiliary definitions of the properties of the QR scan.                 *)
(***************************************************************************)
ScanDone(r) == scan[r].pc = "done"

\* the scan went through scanQR / through router.post('/scan')
ByScanQR(r) == scan[r].req.endpoint = "scanQR"
ByQrRoute(r) == scan[r].req.endpoint = "qr"

(***************************************************************************)
(* C24 - A QR scan is read-only: a step of a scan (through scanQR or       *)
(* through router.post('/scan')) writes nothing to the store; in           *)
(* particular it leaves every device's last_gps_latitude,                  *)
(* last_gps_longitude and last_gps_updated_at as they were.                *)
(***************************************************************************)
C24_ScanReadOnly ==
    [][ (\E r \in Requests : scan'[r] # scan[r])
        => /\ device_gps' = device_gps
           /\ UNCHANGED << users, transactions, fraud_alerts, notifications,
                           audit_logs >>
      ]_vars

(***************************************************************************)
(* C28 - GPSStale: a scan through scanQR of an active transport device on  *)
(* a route, with GPS enabled and a last position, is refused with          *)
(* GPS_UNAVAILABLE (503) exactly when the position is older than MAX_AGE;  *)
(* it is then given neither a detected origin nor the stops for manual     *)
(* selection.  At an age of MAX_AGE or less the scan succeeds, and its     *)
(* answer is the result of the detection, never the manual selection.      *)
(***************************************************************************)
HasFix(gps) == gps.last_gps_latitude # NoCoord /\ gps.last_gps_longitude # NoCoord

DetectionRequested(r) ==
    /\ ScanDone(r) /\ ByScanQR(r)
    /\ scan[r].locals.device # ""
    /\ LET device == Devices[scan[r].locals.device]
       IN /\ DeviceUsable(device.device_id)
          /\ device.merchants.merchant_type = "transport"
          /\ device.route_id \in DOMAIN Routes
          /\ device.gps_enabled
    /\ HasFix(scan[r].locals.gps)

C28_StaleGpsRefused ==
    \A r \in Requests :
        DetectionRequested(r)
        => LET age == scan[r].locals.now - scan[r].locals.gps.last_gps_updated_at
               response == scan[r].res
           IN /\ response.success
                 => /\ age <= MAX_AGE
                    /\ response.data.gps_detection.status # "unavailable"
              /\ ~response.success
                 => /\ age > MAX_AGE
                    /\ response.statusCode = 503
                    /\ response.code = ErrorCodes.GPS_UNAVAILABLE

(***************************************************************************)
(* C29 - nearestStop: among the stops that carry coordinates the search    *)
(* returns the stop at minimum distance from the position, with that       *)
(* distance, the first in route order among equals; it never returns a     *)
(* stop without coordinates, and it returns none when the route has no     *)
(* stops or no stop carries coordinates.  Stated of both searches: of      *)
(* findNearestStop of gps.js as scanQR calls it, and of the helper of      *)
(* routes/qr.js, whose none is the name 'Unknown'.                         *)
(***************************************************************************)
CarriesCoordinates(stop) == stop.latitude # NoCoord /\ stop.longitude # NoCoord

\* the position in stops of the stop that has coordinates and is nearest to
\* the position, the first among equals; 0 when no stop has coordinates
NearestIndex(latitude, longitude, stops) ==
    LET candidates == { i \in DOMAIN stops : CarriesCoordinates(stops[i]) }
        dist(i) == calculateDistance(latitude, longitude,
                                     stops[i].latitude, stops[i].longitude)
    IN IF candidates = {}
       THEN 0
       ELSE CHOOSE i \in candidates :
                \A j \in candidates : dist(i) < dist(j) \/ (dist(i) = dist(j) /\ i <= j)

\* scanQR has called findNearestStop
SearchRan(r) ==
    /\ ScanDone(r) /\ ByScanQR(r)
    /\ scan[r].res.success
    /\ scan[r].locals.now # 0

\* the helper of routes/qr.js has been called
QrSearchRan(r) ==
    /\ ScanDone(r) /\ ByQrRoute(r)
    /\ scan[r].res.success
    /\ HasUserGps(scan[r].req)
    /\ Len(scan[r].res.data.stops) > 0

C29_NearestStop ==
    \A r \in Requests :
        /\ SearchRan(r)
           => LET stops == Routes[Devices[scan[r].locals.device].route_id].stops
                  gps == scan[r].locals.gps
                  n == NearestIndex(gps.last_gps_latitude, gps.last_gps_longitude, stops)
                  found == scan[r].locals.nearestStop
              IN IF n = 0
                 THEN found = NoStop
                 ELSE /\ found.id = stops[n].id
                      /\ found.distance_meters =
                            calculateDistance(gps.last_gps_latitude, gps.last_gps_longitude,
                                              stops[n].latitude, stops[n].longitude)
        /\ QrSearchRan(r)
           => LET stops == scan[r].res.data.stops
                  n == NearestIndex(scan[r].req.user_gps_latitude,
                                    scan[r].req.user_gps_longitude, stops)
              IN scan[r].res.data.boarding_stop =
                    IF n = 0 THEN "Unknown" ELSE stops[n].name

(***************************************************************************)
(* C30 - downstreamDestinations: when scanQR answers with a detected       *)
(* origin, the origin is a stop of the route, and the destinations it      *)
(* offers are the stops strictly after the origin's position in the        *)
(* route's sequence, each once and in route order; the origin and the      *)
(* stops before it are not offered.                                        *)
(***************************************************************************)
OriginDetected(r) ==
    /\ ScanDone(r) /\ ByScanQR(r)
    /\ scan[r].res.success
    /\ scan[r].res.data.gps_detection.status = "detected"

\* the positions in stops of the stop with this id
PositionsOf(stops, id) == { i \in DOMAIN stops : stops[i].id = id }

C30_DownstreamDestinations ==
    \A r \in Requests :
        OriginDetected(r)
        => LET stops == Routes[Devices[scan[r].locals.device].route_id].stops
               origin == PositionsOf(stops, scan[r].res.data.gps_detection.detected_origin)
               offered == scan[r].res.data.available_destinations
           IN /\ Cardinality(origin) = 1
              /\ \A o \in origin :
                    /\ Len(offered) = Len(stops) - o
                    /\ \A i \in DOMAIN stops :
                          (\E j \in DOMAIN offered : offered[j].id = stops[i].id) <=> i > o
                    /\ \A j, k \in DOMAIN offered :
                          j < k => \A pj \in PositionsOf(stops, offered[j].id) :
                                   \A pk \in PositionsOf(stops, offered[k].id) : pj < pk

\* a scan detected the second stop of a route as origin and offered the two
\* stops after it
C30_Witness ==
    \E r \in Requests :
        /\ OriginDetected(r)
        /\ scan[r].res.data.gps_detection.detected_origin = "b"
        /\ Len(scan[r].res.data.available_destinations) = 2
        /\ scan[r].res.data.available_destinations[1].id = "c"

(***************************************************************************)
(* C31 - attachFares: in an answer of scanQR with a detected origin, each  *)
(* offered destination carries the fare_amount of the fare rule of the     *)
(* route from the origin to that destination that has no effective_until,  *)
(* and a null fare when there is no such rule; the destinations are the    *)
(* ones computed before the join, in the same order.                       *)
(***************************************************************************)
\* the rules in force for the leg
RulesInForce(route_id, origin, destination) ==
    { f \in FareRules : /\ f.route_id = route_id
                        /\ f.origin_stop_id = origin
                        /\ f.destination_stop_id = destination
                        /\ f.effective_until = "" }

C32_ConfidenceLevel ==
    \A r \in Requests :
        OriginDetected(r)
        => LET detection == scan[r].res.data.gps_detection
               distance == detection.distance_meters
           IN /\ distance >= 0
              /\ detection.confidence = "high" <=> distance < 100
              /\ detection.confidence = "medium" <=> (100 <= distance /\ distance < 200)
              /\ detection.confidence = "low" <=> distance >= 200

\* a vehicle exactly 100 m from the stop it is nearest to was reported with
\* medium confidence
C32_Witness ==
    \E r \in Requests :
        /\ OriginDetected(r)
        /\ scan[r].res.data.gps_detection.distance_meters = 100
        /\ scan[r].res.data.gps_detection.confidence = "medium"

(***************************************************************************)
(* C33 - A replay returns a Transaction only to its owner: a request of    *)
(* processPayment that was answered from the idempotency lookup received   *)
(* the id, status and amount of a Transaction whose user_id is the         *)
(* requesting user's.                                                      *)
(***************************************************************************)
C33_ReplayOnlyToOwner ==
    \A r \in Requests :
        ( Done(r) /\ Called(r, "lookup:hit") )
        => \A t \in Range(transactions) :
              ( /\ res[r].data.transaction_id = t.transaction_id
                /\ res[r].data.amount = t.amount )
              => t.user_id = req[r].user_id

(***************************************************************************)
(* C34 - Serial consistency of an account: when no payment is in flight,   *)
(* no store call has failed and every payment had an amount of at least 1, *)
(* the balance of an account with success Transactions is the              *)
(* user_balance_after of the last of them, and no two of its success       *)
(* Transactions record the same user_balance_before.                       *)
(***************************************************************************)
NoneInFlight == \A r \in Requests : pc[r] \in {"idle", "done"}

C34_SerialConsistency ==
    ( /\ NoneInFlight
      /\ faults = 0
      /\ \A t \in Range(transactions) : t.amount >= 1 )
    => \A u \in DOMAIN users :
          LET idx == SuccessOf(u)
          IN /\ idx # {}
                => users[u].balance =
                      transactions[CHOOSE i \in idx : \A j \in idx : j <= i].user_balance_after
             /\ \A i, j \in idx :
                   i # j => transactions[i].user_balance_before
                               # transactions[j].user_balance_before

(***************************************************************************)
(* C35 - A coordinate of 0 is a coordinate: a request of processPayment    *)
(* that passed the account checks and the device lookup, and that supplied *)
(* route_id, origin_stop and both GPS coordinates for a stop of the route  *)
(* that has coordinates, had its distance evaluated, also when a supplied  *)
(* coordinate or a coordinate of the stop is 0; when the distance is       *)
(* beyond the maximum it was rejected with OriginMismatch (no store call   *)
(* having failed).                                                         *)
(***************************************************************************)
PassedDeviceLookup(r) ==
    \/ InsertAttempted(r)
    \/ Called(r, "fraud_alert:ok")
    \/ Called(r, "fraud_alert:error")

C35_ZeroIsACoordinate ==
    \A r \in Requests :
        ( /\ Done(r) /\ req[r].endpoint = "controller"
          /\ faults = 0
          /\ PassedDeviceLookup(r)
          /\ TruthyStr(req[r].route_id) /\ TruthyStr(req[r].origin_stop)
          /\ req[r].gps_latitude # NoCoord /\ req[r].gps_longitude # NoCoord
          /\ req[r].route_id \in DOMAIN Routes )
        => \A s \in selectedStop(Routes[req[r].route_id].stops, req[r].origin_stop) :
              CarriesCoordinates(s)
              => LET d == calculateDistance(req[r].gps_latitude, req[r].gps_longitude,
                                            s.latitude, s.longitude)
                 IN /\ locals[r].distance = d
                    /\ d > GPS_MAX_DISTANCE_METERS
                       => ( ~res[r].success /\ res[r].code = ErrorCodes.ORIGIN_MISMATCH )

(***************************************************************************)
(* C36 - FraudAlerts and rejections.  As claimed: every FraudAlert was     *)
(* appended by a request that is rejected with OriginMismatch, a finished  *)
(* request with any other outcome has appended none, and the number of     *)
(* FraudAlerts equals the number of OriginMismatch rejections.             *)
(***************************************************************************)
Rejections == { r \in Requests : RejectedByGate(r) }

AlertsOnlyFromRejections ==
    /\ \A i \in DOMAIN fraud_alerts : RejectedByGate(fraud_alerts[i].request)
    /\ \A r \in Requests :
          ( Done(r) /\ ~RejectedByGate(r) )
          => /\ AlertsOf(r) = {}
             /\ ~Called(r, "fraud_alert:ok") /\ ~Called(r, "fraud_alert:error")

C36_AlertsEqualRejections ==
    /\ AlertsOnlyFromRejections
    /\ Len(fraud_alerts) = Cardinality(Rejections)

(***************************************************************************)
(* C36, the part the handler keeps - every FraudAlert was appended by a   *)
(* request that is rejected with OriginMismatch, a finished request with   *)
(* any other outcome has appended none, and the number of FraudAlerts      *)
(* equals the number of OriginMismatch rejections whose alert write the    *)
(* store accepted: one alert for each of them, none for a rejection whose  *)
(* alert write failed.                                                     *)
(***************************************************************************)
C36_AlertsEqualRecordedRejections ==
    /\ AlertsOnlyFromRejections
    /\ \A r \in Rejections :
          Cardinality(AlertsOf(r)) = IF Called(r, "fraud_alert:ok") THEN 1 ELSE 0
    /\ Len(fraud_alerts) =
          Cardinality({ r \in Rejections : Called(r, "fraud_alert:ok") })

\* one payment was rejected with OriginMismatch and its alert recorded, while
\* another payment of the account was committed without alert
C36_Witness ==
    \E r1, r2 \in Requests :
        /\ RejectedByGate(r1) /\ Called(r1, "fraud_alert:ok")
        /\ Done(r2) /\ res[r2].success /\ TxnOf(r2) # {}
        /\ Len(fraud_alerts) = 1


(***************************************************************************)
(* Termination.  processPayment is one async function: each await hands    *)
(* control to the event loop and the handler goes on when the store call   *)
(* returns.  Under the premise that every store call returns, a handler    *)
(* that is at an await is resumed; an idle request need not be made.       *)
(***************************************************************************)
Resume(r) ==
    \/ GetUser(r)
    \/ GetDevice(r)
    \/ GetRoute(r)
    \/ InsertFraudAlert(r)
    \/ InsertTransaction(r)
    \/ UpdateBalance(r)
    \/ QueueNotifications(r)
    \/ RouterGetMerchant(r)
    \/ RouterInsertTransaction(r)
    \/ RouterUpdateBalance(r)
    \/ RouterAuditLog(r)

SpecLive == Init /\ [][Next]_vars /\ \A r \in Requests : WF_vars(Resume(r))

\* the request is an invocation of processPayment
Invoked(r) == pc[r] # "idle" /\ req[r].endpoint = "controller"

\* a response is written once, by the step that ends the handler
AnswersOnce ==
    [][ \A r \in Requests :
          res'[r] # res[r]
          => /\ res[r] = NoResponse
             /\ pc[r] # "done" /\ pc'[r] = "done" ]_vars

\* a finished invocation has its answer, an unfinished one has none; the
\* answer is a success or an error with a code of ErrorCodes
AnsweredTyped ==
    \A r \in Requests :
        Invoked(r)
        => /\ Done(r) <=> res[r] # NoResponse
           /\ Done(r) => \/ res[r].success
                         \/ res[r].code \in { ErrorCodes[c] : c \in DOMAIN ErrorCodes }

\* the store refused a write of the ledger, or an exception was thrown
UnexpectedFailure(r) ==
    \/ Called(r, "insert_txn:error")
    \/ Called(r, "update_balance:error")
    \/ Called(r, "notifications:throw")

\* the failures the handler reads: the refused insert (line 365-367) and the
\* exception caught at line 414
CaughtFailure(r) ==
    \/ Called(r, "insert_txn:error")
    \/ Called(r, "notifications:throw")

ServerErrorAnswer(r) ==
    /\ ~res[r].success
    /\ res[r].code = ErrorCodes.SERVER_ERROR
    /\ res[r].statusCode = 500

(***************************************************************************)
(* C37 - every invocation of processPayment ends with exactly one          *)
(* response, a success or a typed error, provided every store call         *)
(* returns: no path answers twice or leaves the request unanswered, and an *)
(* unexpected store failure or exception is answered as ServerError.       *)
(***************************************************************************)
C37_TerminatesWithOneResponse ==
    /\ \A r \in Requests : Invoked(r) ~> Done(r)
    /\ AnswersOnce
    /\ []AnsweredTyped
    /\ [](\A r \in Requests :
            ( Invoked(r) /\ Done(r) /\ UnexpectedFailure(r) ) => ServerErrorAnswer(r))

(***************************************************************************)
(* C37, the part the handler keeps - every invocation ends, with exactly   *)
(* one response, a success or a typed error; a refused Transaction insert  *)
(* and a caught exception are answered 500 SERVER_ERROR.                   *)
(***************************************************************************)
C37_TerminatesCaughtAsServerError ==
    /\ \A r \in Requests : Invoked(r) ~> Done(r)
    /\ AnswersOnce
    /\ []AnsweredTyped
    /\ [](\A r \in Requests :
            ( Invoked(r) /\ Done(r) /\ CaughtFailure(r) ) => ServerErrorAnswer(r))

\* one invocation ended 500 on a refused insert and another on the exception
\* of a string amount
C37_Witness ==
    \E r1, r2 \in Requests :
        /\ Invoked(r1) /\ Done(r1) /\ Called(r1, "insert_txn:error")
        /\ Invoked(r2) /\ Done(r2) /\ Called(r2, "notifications:throw")
        /\ ServerErrorAnswer(r1) /\ ServerErrorAnswer(r2)

=============================================================================
